---- MODULE Spec2Model ----
(***************************************************************************)
(* Model of the auction platform's bidding engine (services/bidding.ts),   *)
(* the rules in utils/db.ts and the auction routes that activate and close *)
(* lots.  One lot of one auction is modelled, with its Bid rows and its    *)
(* audit log.  Amounts are whole currency units, times are Unix seconds.   *)
(* The lots table of the auction as the lot, publish, close and import     *)
(* routes see it (services/import.ts) and the rate limiter (utils/auth.ts) *)
(* are modelled beside it.                                                 *)
(***************************************************************************)
EXTENDS Integers, Sequences, FiniteSets, Bags, TLC

VARIABLES auction, lot, bids, audit, invoices, faults, now, req, resp, procs

(* the lots table of the auction, the import tables and an import in flight *)
VARIABLES lotRows, import_batches, image_mappings, imp

(* RateLimiter: its attempts map, the clock, the calls it admitted so far *)
VARIABLES attempts, clock, admitted, lastCall

adminVars == <<lotRows, import_batches, image_mappings, imp>>

limiterVars == <<attempts, clock, admitted, lastCall>>

vars == <<auction, lot, bids, audit, invoices, faults, now, req, resp, procs,
          adminVars, limiterVars>>

----------------------------------------------------------------------------
(* Bounds of the model *)

MaxAmount == 4
MaxBidRows == 3
MaxTime == 120
MaxCallsPerProc == 1
MaxAudit == 4
MaxGenerateCalls == 2
MaxAborts == 4
MaxWrites == 2

(* JavaScript null / undefined / 0 are all falsy in the engine's tests *)
NULL == 0
(* `max: null` of an increment tier (compared with === null) *)
NoMax == -1

SecondsPerMinute == 60

Bidders == {1, 2}
Amounts == 0..MaxAmount
MaxBids == 0..MaxAmount
Procs == {1, 2}
(* the bids of the concurrent requests *)
MaxConcAmount == 2
ConcAmounts == 1..MaxConcAmount
ConcMaxBids == {NULL, MaxConcAmount + 1}
CloserProc == 3

(* The instants at which the clock is observed: the start, and the seconds *)
(* from the last second of the second minute on.                           *)
TimeGrid == {t \in 0..MaxTime : t = 0 \/ t >= 2 * SecondsPerMinute - 1}

Min(a, b) == IF a < b THEN a ELSE b

----------------------------------------------------------------------------
(* Rules: utils/db.ts *)

Tier(lo, hi, inc) == [min |-> lo, max |-> hi, increment |-> inc]

(* the fallback tiers of getIncrementRules *)
DefaultRules == <<Tier(0, 100, 5), Tier(100, 500, 10), Tier(500, NoMax, 25)>>

(* faulty variant of the tier test: the upper end of a tier is included *)
TierMatches_UpperInclusive(currentBid, rule) ==
  currentBid >= rule.min /\ (rule.max = NoMax \/ currentBid <= rule.max)

TierMatches(currentBid, rule) ==
  currentBid >= rule.min /\ (rule.max = NoMax \/ currentBid < rule.max)

RECURSIVE IncrementFrom(_, _, _)
IncrementFrom(currentBid, rules, i) ==
  IF i > Len(rules) THEN 1
  ELSE IF TierMatches(currentBid, rules[i])
       THEN rules[i].increment
       ELSE IncrementFrom(currentBid, rules, i + 1)

calculateBidIncrement(currentBid, rules) == IncrementFrom(currentBid, rules, 1)

getMinimumNextBid(currentBid, incrementRules) ==
  currentBid + calculateBidIncrement(currentBid, incrementRules)

(* parseJSON(json, defaultValue): a null or empty column gives the default *)
parseJSON(json, defaultValue) == IF json.isNull THEN defaultValue ELSE json.rules

Json(rules) == [isNull |-> FALSE, rules |-> rules]
JsonNull == [isNull |-> TRUE, rules |-> <<>>]

getIncrementRules(l, a) ==
  IF ~l.increment_override.isNull
  THEN parseJSON(l.increment_override, <<>>)
  ELSE parseJSON(a.increment_rules, DefaultRules)

----------------------------------------------------------------------------
(* Configurations of the auction and of the lot (admin input) *)

SmallRules == <<Tier(0, 3, 1), Tier(3, NoMax, 2)>>
FlatRules == <<Tier(0, NoMax, 2)>>
GapRules == <<Tier(2, NoMax, 2)>>
ZeroRules == <<Tier(0, NoMax, 0)>>

AuctionConfig(st, endDate, enabled, trigger, extension, rules) ==
  [ status |-> st, end_date |-> endDate, soft_close_enabled |-> enabled,
    soft_close_trigger_minutes |-> trigger,
    soft_close_extension_minutes |-> extension, increment_rules |-> rules,
    buyers_premium_rules |-> JsonNull, tax_enabled |-> FALSE, tax_rate |-> 0 ]

LotConfig(startingBid, reservePrice, override) ==
  [ starting_bid |-> startingBid, reserve_price |-> reservePrice,
    increment_override |-> override ]

(* The auctions and lots the model starts from: a draft auction whose lot  *)
(* is pending, or a published auction that got the lot after publication.  *)
Configs ==
  { <<AuctionConfig("draft", 120, TRUE, 1, 1, Json(SmallRules)),
      LotConfig(0, NULL, JsonNull)>>,
    <<AuctionConfig("draft", 120, TRUE, 2, 1, JsonNull),
      LotConfig(2, 4, JsonNull)>>,
    <<AuctionConfig("published", 60, FALSE, 1, 1, Json(SmallRules)),
      LotConfig(1, NULL, Json(FlatRules))>>,
    <<AuctionConfig("draft", 120, FALSE, 1, 1, Json(SmallRules)),
      LotConfig(0, 3, Json(GapRules))>>,
    <<AuctionConfig("published", 120, FALSE, 1, 1, Json(ZeroRules)),
      LotConfig(3, NULL, JsonNull)>> }

----------------------------------------------------------------------------
(* Rows *)

(* no CSV import is running *)
IdleImport ==
  [pc |-> "idle", csv |-> <<>>, rows |-> <<>>, errors |-> 0, next |-> 0, successfulItems |-> 0]

(* the keys the rate limiter is asked about, one per user *)
Keys == Bidders

(* POST /api/lots: the row inserted for a new lot *)
NewLot(cfg, auctionStatus) ==
  [ starting_bid |-> cfg.starting_bid,
    reserve_price |-> cfg.reserve_price,
    reserve_met |-> FALSE,
    increment_override |-> cfg.increment_override,
    current_bid |-> 0,
    current_bidder_id |-> NULL,
    bid_count |-> 0,
    original_close_time |-> NULL,
    current_close_time |-> NULL,
    extension_count |-> 0,
    status |-> IF auctionStatus = "draft" THEN "pending" ELSE "active",
    closed_at |-> NULL ]

BidRow(bidder, amount, type, maxBid, active, winning, prevAmount, prevBidder, status, t) ==
  [ bidder_id |-> bidder, amount |-> amount, bid_type |-> type,
    max_bid |-> maxBid, is_max_bid_active |-> active, is_winning |-> winning,
    previous_bid_amount |-> prevAmount, previous_bidder_id |-> prevBidder,
    status |-> status, created_at |-> t ]

(* createAuditLog: the bid_audit_log row *)
createAuditLog(eventType, bidderId, newAmount, previousAmount, resultCode) ==
  [ event_type |-> eventType, bidder_id |-> bidderId, new_amount |-> newAmount,
    previous_amount |-> previousAmount, result_code |-> resultCode ]

(* the result of the last request handled (BidResult for place_bid) *)
Resp(op, code, success, currentBid) ==
  [op |-> op, code |-> code, success |-> success, currentBid |-> currentBid]

(* a place_bid request that has arrived and is not handled yet *)
Request(bidderId, amount, maxBid) ==
  [pending |-> TRUE, bidderId |-> bidderId, amount |-> amount, maxBid |-> maxBid]

NoReq == [pending |-> FALSE, bidderId |-> NULL, amount |-> 0, maxBid |-> NULL]

----------------------------------------------------------------------------
(* Bidding engine: services/bidding.ts *)

Db(l, bs, au) == [lot |-> l, bids |-> bs, audit |-> au]

(* INSERT INTO bid_audit_log: the log is append-only and is kept as the    *)
(* bag of its rows                                                         *)
Log(au, e) == au (+) SetToBag({e})

(* getActiveMaxBid: the max_bid of the bidder's latest row whose max is    *)
(* active.  Rows with the same created_at are in no defined order, so      *)
(* every latest row is a possible answer.  `bid?.max_bid || null`.         *)
getActiveMaxBid(bs, bidderId) ==
  LET rows == {i \in DOMAIN bs : bs[i].bidder_id = bidderId /\ bs[i].is_max_bid_active}
      latest == {i \in rows : \A j \in rows : bs[j].created_at <= bs[i].created_at}
  IN IF rows = {} THEN {NULL} ELSE {bs[i].max_bid : i \in latest}

(* placeBid, the checks before the lot is read *)
ValidateInputs(amount, maxBid) ==
  IF amount <= 0 THEN "INVALID_AMOUNT"
  ELSE IF maxBid # NULL /\ maxBid < amount THEN "INVALID_MAX_BID"
  ELSE "OK"

(* placeBid: the floor of the next bid *)
minimumBid(snap, rules) ==
  IF snap.current_bid > 0 THEN getMinimumNextBid(snap.current_bid, rules)
  ELSE snap.starting_bid

(* faulty variant of the close test: the close second itself is open *)
IsClosed_AfterOnly(snap, currentTime) ==
  snap.current_close_time # NULL /\ currentTime > snap.current_close_time

(* placeBid: `lot.current_close_time && currentTime >= lot.current_close_time` *)
IsClosed(snap, currentTime) ==
  snap.current_close_time # NULL /\ currentTime >= snap.current_close_time

(* faulty variant of the checks: the high bidder may bid again *)
ValidateLot_NoSelfCheck(snap, bidderId, amount, currentTime, rules) ==
  IF snap.status # "active" THEN "LOT_NOT_ACTIVE"
  ELSE IF IsClosed(snap, currentTime) THEN "AUCTION_CLOSED"
  ELSE IF amount < minimumBid(snap, rules) THEN "BID_TOO_LOW"
  ELSE "OK"

(* placeBid, the checks on the lot row that was read *)
ValidateLot(snap, bidderId, amount, currentTime, rules) ==
  IF snap.status # "active" THEN "LOT_NOT_ACTIVE"
  ELSE IF IsClosed(snap, currentTime) THEN "AUCTION_CLOSED"
  ELSE IF amount < minimumBid(snap, rules) THEN "BID_TOO_LOW"
  ELSE IF snap.current_bidder_id = bidderId THEN "SELF_OUTBID"
  ELSE "OK"

(* executeBidTransaction: which branch is taken and the final bid amount *)
Scenario(snap, bidAmount, maxBid, hmax, rules) ==
  LET increment == calculateBidIncrement(snap.current_bid, rules) IN
  IF hmax = NULL
  THEN [kind |-> "simple", finalBidAmount |-> bidAmount]
  ELSE IF maxBid # NULL /\ maxBid > hmax
  THEN [kind |-> "overtake", finalBidAmount |-> Min(maxBid, hmax + increment)]
  ELSE IF maxBid # NULL /\ maxBid = hmax
  THEN [kind |-> "tie", finalBidAmount |-> bidAmount]
  ELSE [kind |-> "defend",
        finalBidAmount |-> IF maxBid # NULL THEN Min(hmax, maxBid + increment)
                           ELSE bidAmount + increment]

(* faulty variant of the outbid update: the max of the outbid row stays active *)
MarkOutbid_KeepsMax(bs, bidderId, deactivateMax) ==
  [i \in DOMAIN bs |->
     IF bs[i].bidder_id = bidderId /\ bs[i].is_winning
     THEN [bs[i] EXCEPT !.status = "outbid", !.is_winning = FALSE]
     ELSE bs[i]]

(* UPDATE bids ... WHERE lot_id = ? AND bidder_id = ? AND is_winning = 1 *)
MarkOutbid(bs, bidderId, deactivateMax) ==
  [i \in DOMAIN bs |->
     IF bs[i].bidder_id = bidderId /\ bs[i].is_winning
     THEN [bs[i] EXCEPT !.status = "outbid", !.is_winning = FALSE,
                        !.is_max_bid_active = IF deactivateMax THEN FALSE ELSE @]
     ELSE bs[i]]

(* faulty variant of the reserve test: a bid equal to the reserve misses it *)
ReserveMet_Above(l, newBid) ==
  IF l.reserve_price # NULL /\ newBid > l.reserve_price THEN TRUE ELSE l.reserve_met

(* reserve_met = CASE WHEN reserve_price IS NOT NULL AND ? >= reserve_price *)
(*               THEN 1 ELSE reserve_met END                                *)
ReserveMet(l, newBid) ==
  IF l.reserve_price # NULL /\ newBid >= l.reserve_price THEN TRUE ELSE l.reserve_met

(* faulty variant of the lot update: bid_count grows by one whatever was written *)
UpdateLotBid_CountsOne(l, newBid, newBidder, rows) ==
  [l EXCEPT !.current_bid = newBid,
            !.current_bidder_id = newBidder,
            !.bid_count = @ + 1,
            !.reserve_met = ReserveMet(l, newBid)]

(* UPDATE lots SET current_bid, current_bidder_id, bid_count, reserve_met *)
UpdateLotBid(l, newBid, newBidder, rows) ==
  [l EXCEPT !.current_bid = newBid,
            !.current_bidder_id = newBidder,
            !.bid_count = @ + rows,
            !.reserve_met = ReserveMet(l, newBid)]

(* faulty variant of scenario 1: the previous winning row is left alone *)
SimpleBatch_NoOutbid(db, snap, bidderId, finalBidAmount, maxBid, t) ==
  Db(UpdateLotBid(db.lot, finalBidAmount, bidderId, 1),
     Append(db.bids,
            BidRow(bidderId, finalBidAmount, "manual", maxBid, maxBid # NULL,
                   TRUE, snap.current_bid, snap.current_bidder_id, "winning", t)),
     Log(db.audit,
         createAuditLog("bid_placed", bidderId, finalBidAmount,
                        snap.current_bid, "success")))

(* Scenario 1: the batch of the simple bid, applied to the stored rows *)
SimpleBatch(db, snap, bidderId, finalBidAmount, maxBid, t) ==
  LET inserted == Append(db.bids,
                    BidRow(bidderId, finalBidAmount, "manual", maxBid, maxBid # NULL,
                           TRUE, snap.current_bid, snap.current_bidder_id, "winning", t))
  IN Db(UpdateLotBid(db.lot, finalBidAmount, bidderId, 1),
        IF snap.current_bidder_id # NULL
        THEN MarkOutbid(inserted, snap.current_bidder_id, FALSE)
        ELSE inserted,
        Log(db.audit,
            createAuditLog("bid_placed", bidderId, finalBidAmount,
                           snap.current_bid, "success")))

(* faulty variant of scenario 2: the overtaken max stays active *)
OvertakeBatch_KeepMax(db, snap, bidderId, finalBidAmount, maxBid, hmax, t) ==
  LET inserted == db.bids \o
        << BidRow(bidderId, finalBidAmount, "manual", maxBid, TRUE, TRUE,
                  snap.current_bid, snap.current_bidder_id, "winning", t),
           BidRow(snap.current_bidder_id, hmax, "proxy_auto", hmax, FALSE, FALSE,
                  snap.current_bid, snap.current_bidder_id, "outbid", t) >>
  IN Db(UpdateLotBid(db.lot, finalBidAmount, bidderId, 2),
        MarkOutbid(inserted, snap.current_bidder_id, FALSE),
        Log(Log(db.audit,
                createAuditLog("proxy_triggered", snap.current_bidder_id, hmax,
                               snap.current_bid, "outbid")),
            createAuditLog("bid_placed", bidderId, finalBidAmount, hmax, "success")))

(* Scenario 2, new max above the high bidder's max *)
OvertakeBatch(db, snap, bidderId, finalBidAmount, maxBid, hmax, t) ==
  LET inserted == db.bids \o
        << BidRow(bidderId, finalBidAmount, "manual", maxBid, TRUE, TRUE,
                  snap.current_bid, snap.current_bidder_id, "winning", t),
           BidRow(snap.current_bidder_id, hmax, "proxy_auto", hmax, FALSE, FALSE,
                  snap.current_bid, snap.current_bidder_id, "outbid", t) >>
  IN Db(UpdateLotBid(db.lot, finalBidAmount, bidderId, 2),
        MarkOutbid(inserted, snap.current_bidder_id, TRUE),
        Log(Log(db.audit,
                createAuditLog("proxy_triggered", snap.current_bidder_id, hmax,
                               snap.current_bid, "outbid")),
            createAuditLog("bid_placed", bidderId, finalBidAmount, hmax, "success")))

(* executeBidTransaction: the rows after the call and its result.  The tie *)
(* and the defended bid return before transaction() is reached.            *)
executeBidTransaction(db, snap, bidderId, bidAmount, maxBid, hmax, rules, t) ==
  LET sc == Scenario(snap, bidAmount, maxBid, hmax, rules) IN
  CASE sc.kind = "simple" ->
         [db |-> SimpleBatch(db, snap, bidderId, sc.finalBidAmount, maxBid, t),
          resp |-> Resp("place_bid", "BID_SUCCESS", TRUE, NULL)]
    [] sc.kind = "overtake" ->
         [db |-> OvertakeBatch(db, snap, bidderId, sc.finalBidAmount, maxBid, hmax, t),
          resp |-> Resp("place_bid", "BID_SUCCESS", TRUE, NULL)]
    [] sc.kind = "tie" ->
         [db |-> db, resp |-> Resp("place_bid", "MAX_BID_TIED", FALSE, NULL)]
    [] sc.kind = "defend" ->
         [db |-> db,
          resp |-> Resp("place_bid", "OUTBID_BY_PROXY", FALSE, sc.finalBidAmount)]

(* checkSoftClose(lot, currentTime): works on the row read at the start *)
SoftCloseDue(a, snap, currentTime) ==
  /\ snap.current_close_time # NULL
  /\ a.soft_close_enabled
  /\ snap.current_close_time - currentTime <= a.soft_close_trigger_minutes * SecondsPerMinute

checkSoftClose(db, a, snap, currentTime) ==
  IF SoftCloseDue(a, snap, currentTime)
  THEN LET newCloseTime == currentTime + a.soft_close_extension_minutes * SecondsPerMinute
       IN Db([db.lot EXCEPT !.current_close_time = newCloseTime,
                            !.extension_count = @ + 1],
             db.bids,
             Log(db.audit,
                 createAuditLog("soft_close_triggered", NULL, newCloseTime,
                                snap.current_close_time, "extended")))
  ELSE db

(* the call gets as far as `await transaction(this.db, queries)` *)
ReachesTransaction(db, a, bidderId, amount, maxBid, hmax, t) ==
  LET rules == getIncrementRules(db.lot, a) IN
  /\ ValidateInputs(amount, maxBid) = "OK"
  /\ ValidateLot(db.lot, bidderId, amount, t, rules) = "OK"
  /\ Scenario(db.lot, amount, maxBid, hmax, rules).kind \in {"simple", "overtake"}

(* placeBid when the batch is aborted: transaction() throws and the catch  *)
(* of placeBid answers BID_FAILED; nothing of the batch is written and     *)
(* checkSoftClose is skipped                                               *)
placeBidAborted(db) ==
  [db |-> db, resp |-> Resp("place_bid", "BID_FAILED", FALSE, NULL)]

(* placeBid when a write of checkSoftClose throws: the batch of the bid is  *)
(* committed already, the UPDATE of the close time is too when it is the   *)
(* audit INSERT that fails, and the catch of placeBid answers BID_FAILED   *)
placeBidSoftCloseFails(db, a, bidderId, amount, maxBid, hmax, t, failing) ==
  LET rules == getIncrementRules(db.lot, a)
      r == executeBidTransaction(db, db.lot, bidderId, amount, maxBid, hmax, rules, t)
      extended == checkSoftClose(r.db, a, db.lot, t)
  IN [db |-> IF failing = "audit" THEN Db(extended.lot, r.db.bids, r.db.audit) ELSE r.db,
      resp |-> Resp("place_bid", "BID_FAILED", FALSE, NULL)]

(* placeBid run without interruption on the rows `db` at time t *)
placeBid(db, a, bidderId, amount, maxBid, hmax, t) ==
  LET rules == getIncrementRules(db.lot, a)
      v1 == ValidateInputs(amount, maxBid)
      v2 == ValidateLot(db.lot, bidderId, amount, t, rules)
  IN IF v1 # "OK" THEN [db |-> db, resp |-> Resp("place_bid", v1, FALSE, NULL)]
     ELSE IF v2 # "OK" THEN [db |-> db, resp |-> Resp("place_bid", v2, FALSE, NULL)]
     ELSE LET r == executeBidTransaction(db, db.lot, bidderId, amount, maxBid,
                                         hmax, rules, t)
          IN [db |-> checkSoftClose(r.db, a, db.lot, t), resp |-> r.resp]

----------------------------------------------------------------------------
(* Closing: BiddingEngine.closeLot and POST /api/auctions/:id/close *)

closeStatus(snap) ==
  IF snap.reserve_price # NULL /\ ~snap.reserve_met THEN "unsold" ELSE "sold"

(* UPDATE bids SET status = 'won' WHERE bidder_id = ? AND is_winning = 1 *)
MarkWon(bs, bidderId) ==
  [i \in DOMAIN bs |->
     IF bs[i].bidder_id = bidderId /\ bs[i].is_winning
     THEN [bs[i] EXCEPT !.status = "won"] ELSE bs[i]]

(* UPDATE bids SET status = 'lost' WHERE status NOT IN ('won', 'cancelled') *)
MarkLost(bs) ==
  [i \in DOMAIN bs |->
     IF bs[i].status \notin {"won", "cancelled"}
     THEN [bs[i] EXCEPT !.status = "lost"] ELSE bs[i]]

(* the writes both closers make for one lot, from the row `snap` *)
FinalizeLot(db, snap, t) ==
  LET status == closeStatus(snap) IN
  Db([db.lot EXCEPT !.status = status, !.closed_at = t],
     MarkLost(IF snap.current_bidder_id # NULL /\ status = "sold"
              THEN MarkWon(db.bids, snap.current_bidder_id) ELSE db.bids),
     db.audit)

(* closeLot run without interruption *)
closeLot(db, t) ==
  LET d == FinalizeLot(db, db.lot, t) IN
  Db(d.lot, d.bids,
     Log(d.audit, createAuditLog("lot_closed", db.lot.current_bidder_id,
                                 db.lot.current_bid, NULL, closeStatus(db.lot))))

----------------------------------------------------------------------------
(* Invoices: InvoiceService and POST /api/invoices/generate/:auctionId.    *)
(* Bids are counted in cents; the amounts an invoice stores are products   *)
(* of a bid and up to two percentages, kept exactly in units of            *)
(* 1 / MoneyScale cent.                                                    *)

MoneyScale == 10000
Percent == 100

(* amount * rate, the rate being ratePct / 100 *)
Times(amount, ratePct) == (amount * ratePct) \div Percent

DefaultPremiumRules == <<[min |-> 0, max |-> NoMax, rate |-> 15]>>

RECURSIVE PremiumFrom(_, _, _)
PremiumFrom(amount, rules, i) ==
  IF i > Len(rules) THEN [rate |-> 0, fee |-> 0]
  ELSE IF amount >= rules[i].min * MoneyScale
          /\ (rules[i].max = NoMax \/ amount < rules[i].max * MoneyScale)
       THEN [rate |-> rules[i].rate, fee |-> Times(amount, rules[i].rate)]
       ELSE PremiumFrom(amount, rules, i + 1)

calculateBuyersPremium(amount, rules) == PremiumFrom(amount, rules, 1).fee

(* generateInvoice: the line item of one winning lot *)
LineItem(l, rules, taxEnabled, taxRate) ==
  LET winningBid == l.current_bid * MoneyScale
      buyersPremium == calculateBuyersPremium(winningBid, rules)
      taxAmount == IF taxEnabled THEN Times(winningBid + buyersPremium, taxRate) ELSE 0
      shippingAmount == 0
  IN [ winning_bid |-> winningBid,
       buyers_premium_rate |-> PremiumFrom(winningBid, rules, 1).rate,
       buyers_premium_amount |-> buyersPremium,
       tax_rate |-> taxRate,
       tax_amount |-> taxAmount,
       shipping_amount |-> shippingAmount,
       line_total |-> winningBid + buyersPremium + taxAmount + shippingAmount ]

RECURSIVE SumOver(_, _)
SumOver(items, field) ==
  IF items = <<>> THEN 0 ELSE items[1][field] + SumOver(Tail(items), field)

(* generateInvoice: the invoice row and its items for one bidder *)
generateInvoice(bidderId, lots, rules, taxEnabled, taxRate) ==
  LET lineItems == [i \in DOMAIN lots |-> LineItem(lots[i], rules, taxEnabled, taxRate)]
      subtotal == SumOver(lineItems, "winning_bid")
      totalBuyersPremium == SumOver(lineItems, "buyers_premium_amount")
      totalTax == SumOver(lineItems, "tax_amount")
      totalShipping == SumOver(lineItems, "shipping_amount")
  IN [ bidder_id |-> bidderId, subtotal |-> subtotal,
       buyers_premium |-> totalBuyersPremium, tax |-> totalTax,
       shipping |-> totalShipping,
       total |-> subtotal + totalBuyersPremium + totalTax + totalShipping,
       payment_status |-> "unpaid", fulfillment_status |-> "pending",
       items |-> lineItems ]

(* the invoices of bidders 1..n, one for each bidder with a winning lot *)
RECURSIVE InvoicesUpTo(_, _, _)
InvoicesUpTo(n, winningLots, a) ==
  IF n = 0 THEN <<>>
  ELSE LET mine == SelectSeq(winningLots, LAMBDA l : l.current_bidder_id = n)
           rest == InvoicesUpTo(n - 1, winningLots, a)
       IN IF mine = <<>> THEN rest
          ELSE Append(rest,
                 generateInvoice(n, mine,
                                 parseJSON(a.buyers_premium_rules, DefaultPremiumRules),
                                 a.tax_enabled, a.tax_rate))

(* generateInvoicesForAuction: the lots of the auction that were sold to a *)
(* bidder, grouped by bidder                                               *)
generateInvoicesForAuction(lots, a) ==
  LET winningLots == SelectSeq(lots, LAMBDA l : l.status = "sold"
                                                /\ l.current_bidder_id # NULL)
  IN InvoicesUpTo(Cardinality(Bidders), winningLots, a)

(* the invoices table and the admin_audit_log rows of generate calls *)
NoInvoices == [rows |-> <<>>, generate_log |-> 0]

----------------------------------------------------------------------------
(* State machine, every handler run without interruption *)

(* no lot rows beside the one lot, no import, an unused rate limiter *)
NoAdmin ==
  /\ lotRows = <<>>
  /\ import_batches = <<>>
  /\ image_mappings = <<>>
  /\ imp = IdleImport

NoLimiter ==
  /\ attempts = [k \in Keys |-> <<>>]
  /\ clock = 0
  /\ admitted = [k \in Keys |-> <<>>]
  /\ lastCall = [key |-> NULL, allowed |-> FALSE]

NoSnap == NewLot(LotConfig(0, NULL, JsonNull), "draft")

(* a request handler between two awaits: its position and its locals *)
ProcState(pc, calls, bidderId, amount, maxBid, snap, currentTime, hmax, code) ==
  [ pc |-> pc, calls |-> calls, bidderId |-> bidderId, amount |-> amount,
    maxBid |-> maxBid, snap |-> snap, currentTime |-> currentTime,
    hmax |-> hmax, code |-> code ]

IdleProc == ProcState("idle", 0, NULL, 0, NULL, NoSnap, 0, NULL, "")

Init ==
  /\ \E cfg \in Configs :
       /\ auction = cfg[1]
       /\ lot = NewLot(cfg[2], cfg[1].status)
  /\ bids = <<>>
  /\ audit = EmptyBag
  /\ now = 0
  /\ invoices = NoInvoices
  /\ faults = 0
  /\ req = NoReq
  /\ resp = Resp("init", "OK", TRUE, NULL)
  /\ NoAdmin
  /\ NoLimiter
  /\ procs = [p \in Procs \cup {CloserProc} |-> IdleProc]

Bounded(d) == Len(d.bids) <= MaxBidRows /\ BagCardinality(d.audit) <= MaxAudit

SetDb(d) == lot' = d.lot /\ bids' = d.bids /\ audit' = d.audit

(* the server clock moves forward *)
Tick(t) ==
  /\ ~req.pending
  /\ t > now
  /\ now' = t
  /\ resp' = Resp("tick", "OK", TRUE, NULL)
  /\ UNCHANGED <<limiterVars, adminVars, invoices, faults, auction, lot, bids, audit, req, procs>>

(* POST /api/auctions/:id/publish *)
Publish ==
  /\ ~req.pending
  /\ auction.status = "draft"
  /\ auction' = [auction EXCEPT !.status = "published"]
  /\ lot' = IF lot.status = "pending"
            THEN [lot EXCEPT !.status = "active",
                             !.original_close_time = auction.end_date,
                             !.current_close_time = auction.end_date]
            ELSE lot
  /\ resp' = Resp("publish", "OK", TRUE, NULL)
  /\ UNCHANGED <<limiterVars, adminVars, invoices, faults, bids, audit, now, req, procs>>

(* POST /api/bids/:lotId: a bid request arrives *)
ReceiveBid(bidderId, amount, maxBid) ==
  /\ ~req.pending
  /\ req' = Request(bidderId, amount, maxBid)
  /\ resp' = Resp("none", "", FALSE, NULL)
  /\ UNCHANGED <<limiterVars, adminVars, invoices, faults, auction, lot, bids, audit, now, procs>>

(* BiddingEngine.placeBid handles the request *)
PlaceBid ==
  /\ req.pending
  /\ \E hmax \in (IF lot.current_bidder_id # NULL
                  THEN getActiveMaxBid(bids, lot.current_bidder_id) ELSE {NULL}) :
       LET aborted == /\ faults > 0
                      /\ ReachesTransaction(Db(lot, bids, audit), auction, req.bidderId,
                                            req.amount, req.maxBid, hmax, now)
           r == IF aborted THEN placeBidAborted(Db(lot, bids, audit))
                ELSE placeBid(Db(lot, bids, audit), auction, req.bidderId, req.amount,
                              req.maxBid, hmax, now)
       IN /\ Bounded(r.db)
          /\ SetDb(r.db)
          /\ resp' = r.resp
          /\ faults' = IF aborted THEN faults - 1 ELSE faults
  /\ req' = NoReq
  /\ UNCHANGED <<limiterVars, adminVars, invoices, auction, now, procs>>

(* BiddingEngine.closeLot *)
CloseLot ==
  LET d == closeLot(Db(lot, bids, audit), now) IN
  /\ ~req.pending
  /\ Bounded(d)
  /\ SetDb(d)
  /\ resp' = Resp("close_lot", "OK", TRUE, NULL)
  /\ UNCHANGED <<limiterVars, adminVars, invoices, faults, auction, now, req, procs>>

(* POST /api/auctions/:id/close *)
CloseAuction ==
  /\ ~req.pending
  /\ auction' = [auction EXCEPT !.status = "closed"]
  /\ SetDb(IF lot.status = "active"
           THEN FinalizeLot(Db(lot, bids, audit), lot, now)
           ELSE Db(lot, bids, audit))
  /\ resp' = Resp("close_auction", "OK", TRUE, NULL)
  /\ UNCHANGED <<limiterVars, adminVars, invoices, faults, now, req, procs>>

(* faulty variant of the route: existing invoices are not looked for *)
GenerateInvoices_NoCheck ==
  /\ ~req.pending
  /\ invoices.generate_log < MaxGenerateCalls
  /\ invoices' = [rows |-> invoices.rows \o generateInvoicesForAuction(<<lot>>, auction),
                  generate_log |-> invoices.generate_log + 1]
  /\ resp' = Resp("generate_invoices", "OK", TRUE, NULL)
  /\ UNCHANGED <<limiterVars, adminVars, faults, auction, lot, bids, audit, now, req, procs>>

(* POST /api/invoices/generate/:auctionId *)
GenerateInvoices ==
  /\ ~req.pending
  /\ IF Len(invoices.rows) > 0
     THEN /\ resp' = Resp("generate_invoices", "ALREADY_GENERATED", FALSE, NULL)
          /\ UNCHANGED invoices
     ELSE /\ invoices.generate_log < MaxGenerateCalls
          /\ invoices' = [rows |-> invoices.rows \o generateInvoicesForAuction(<<lot>>, auction),
                          generate_log |-> invoices.generate_log + 1]
          /\ resp' = Resp("generate_invoices", "OK", TRUE, NULL)
  /\ UNCHANGED <<limiterVars, adminVars, faults, auction, lot, bids, audit, now, req, procs>>

Next ==
  \/ \E t \in TimeGrid : Tick(t)
  \/ Publish
  \/ \E b \in Bidders, a \in Amounts, m \in MaxBids : ReceiveBid(b, a, m)
  \/ PlaceBid

Spec == Init /\ [][Next]_vars

(* the same with the two closers *)
NextClose == Next \/ CloseLot \/ CloseAuction

SpecClose == Init /\ [][NextClose]_vars

(* the statements of checkSoftClose that may throw *)
SoftCloseWrites == {"update", "audit"}

(* BiddingEngine.placeBid handles the request and a write of checkSoftClose *)
(* fails                                                                    *)
PlaceBidSoftCloseFails(failing) ==
  /\ req.pending
  /\ \E hmax \in (IF lot.current_bidder_id # NULL
                  THEN getActiveMaxBid(bids, lot.current_bidder_id) ELSE {NULL}) :
       LET db == Db(lot, bids, audit)
           r == placeBidSoftCloseFails(db, auction, req.bidderId, req.amount,
                                       req.maxBid, hmax, now, failing)
       IN /\ ValidateInputs(req.amount, req.maxBid) = "OK"
          /\ ValidateLot(lot, req.bidderId, req.amount, now,
                         getIncrementRules(lot, auction)) = "OK"
          /\ SoftCloseDue(auction, lot, now)
          /\ lot.extension_count < MaxAudit
          /\ Bounded(r.db)
          /\ SetDb(r.db)
          /\ resp' = r.resp
  /\ req' = NoReq
  /\ UNCHANGED <<limiterVars, adminVars, invoices, faults, auction, now, procs>>

(* bidding while the writes of checkSoftClose may fail *)
NextSoftFail ==
  \/ \E t \in TimeGrid : Tick(t)
  \/ Publish
  \/ \E b \in Bidders, a \in Amounts, m \in MaxBids : ReceiveBid(b, a, m)
  \/ PlaceBid
  \/ \E w \in SoftCloseWrites : PlaceBidSoftCloseFails(w)

SpecSoftFail == Init /\ [][NextSoftFail]_vars

(* PUT /api/lots/:id, here the reserve price: refused once the lot has bids *)
UpdateLot(reservePrice) ==
  /\ ~req.pending
  /\ IF lot.bid_count > 0
     THEN /\ resp' = Resp("update_lot", "HAS_BIDS", FALSE, NULL)
          /\ UNCHANGED lot
     ELSE /\ lot' = [lot EXCEPT !.reserve_price = reservePrice]
          /\ resp' = Resp("update_lot", "OK", TRUE, NULL)
  /\ UNCHANGED <<limiterVars, adminVars, invoices, faults, auction, bids, audit, now, req, procs>>

(* reserve prices an editor may set *)
ReservePrices == {NULL, 2, MaxAmount}

(* bidding, lot edits and closing within one clock second *)
NextLot ==
  \/ Publish
  \/ \E b \in Bidders, a \in Amounts, m \in MaxBids : ReceiveBid(b, a, m)
  \/ PlaceBid
  \/ \E r \in ReservePrices : UpdateLot(r)
  \/ CloseLot
  \/ CloseAuction

SpecLot == Init /\ [][NextLot]_vars

(* the store will abort the next n batches (serialization conflicts) *)
StoreAborts(n) ==
  /\ ~req.pending
  /\ faults = 0
  /\ faults' = n
  /\ resp' = Resp("store", "OK", TRUE, NULL)
  /\ UNCHANGED <<limiterVars, adminVars, invoices, auction, lot, bids, audit, now, req, procs>>

(* bidding within one clock second on a store that may abort batches *)
NextAbort ==
  \/ Publish
  \/ \E b \in Bidders, a \in Amounts, m \in MaxBids : ReceiveBid(b, a, m)
  \/ PlaceBid
  \/ \E n \in 1..MaxAborts : StoreAborts(n)

SpecAbort == Init /\ [][NextAbort]_vars

(* auctions with and without tax *)
TaxConfigs == {[tax_enabled |-> FALSE, tax_rate |-> 0], [tax_enabled |-> TRUE, tax_rate |-> 8]}

InitInvoice ==
  /\ \E cfg \in {c \in Configs : ~c[1].soft_close_enabled}, tax \in TaxConfigs :
       /\ auction = [cfg[1] EXCEPT !.tax_enabled = tax.tax_enabled,
                                   !.tax_rate = tax.tax_rate]
       /\ lot = NewLot(cfg[2], cfg[1].status)
  /\ bids = <<>>
  /\ audit = EmptyBag
  /\ now = 0
  /\ invoices = NoInvoices
  /\ faults = 0
  /\ req = NoReq
  /\ resp = Resp("init", "OK", TRUE, NULL)
  /\ NoAdmin
  /\ NoLimiter
  /\ procs = [p \in Procs \cup {CloserProc} |-> IdleProc]

(* bidding, closing and invoicing within one clock second *)
NextInvoice ==
  \/ Publish
  \/ \E b \in Bidders, a \in Amounts, m \in MaxBids : ReceiveBid(b, a, m)
  \/ PlaceBid
  \/ CloseAuction
  \/ GenerateInvoices

SpecInvoice == InitInvoice /\ [][NextInvoice]_vars

(* what is in the tables when the k-th INSERT of a generate call throws:   *)
(* every invoice is one INSERT followed by one INSERT for each item        *)
RECURSIVE WrittenBefore(_, _)
WrittenBefore(invs, k) ==
  IF invs = <<>> \/ k <= 1 THEN <<>>
  ELSE LET inv == Head(invs) IN
       IF k - 1 > Len(inv.items)
       THEN <<inv>> \o WrittenBefore(Tail(invs), k - 1 - Len(inv.items))
       ELSE <<[inv EXCEPT !.items = SubSeq(inv.items, 1, k - 2)]>>

RECURSIVE WritesOf(_)
(* the number of INSERTs a generate call makes *)
WritesOf(invs) ==
  IF invs = <<>> THEN 0 ELSE 1 + Len(Head(invs).items) + WritesOf(Tail(invs))

(* POST /api/invoices/generate/:auctionId when its k-th INSERT throws: the *)
(* route answers 500, which the audit middleware does not log              *)
GenerateInvoicesFails(k) ==
  LET invs == generateInvoicesForAuction(<<lot>>, auction) IN
  /\ ~req.pending
  /\ Len(invoices.rows) = 0
  /\ k <= WritesOf(invs)
  /\ invoices' = [invoices EXCEPT !.rows = WrittenBefore(invs, k)]
  /\ resp' = Resp("generate_invoices", "FAILED", FALSE, NULL)
  /\ UNCHANGED <<limiterVars, adminVars, faults, auction, lot, bids, audit, now, req, procs>>

(* bidding, closing and invoicing on a store whose writes may fail *)
NextInvoiceFail ==
  \/ Publish
  \/ \E b \in Bidders, a \in Amounts, m \in MaxBids : ReceiveBid(b, a, m)
  \/ PlaceBid
  \/ CloseAuction
  \/ GenerateInvoices
  \/ \E k \in 1..MaxWrites : GenerateInvoicesFails(k)

SpecInvoiceFail == InitInvoice /\ [][NextInvoiceFail]_vars

----------------------------------------------------------------------------
(* State machine of concurrent requests: every await of placeBid and of    *)
(* closeLot is a point where another request may run.  A D1 statement and  *)
(* a D1 batch are executed atomically.  The requests of one burst arrive   *)
(* within one second of the server clock.                                  *)

(* the handler returns: its locals are gone, the caller has the result     *)
Finish(p, code) ==
  procs' = [procs EXCEPT ![p] =
              ProcState("done", procs[p].calls, NULL, 0, NULL, NoSnap, 0, NULL, code)]

(* placeBid up to getActiveMaxBid: input checks, SELECT of the lot, now(),  *)
(* getIncrementRules and the checks on the row                             *)
BidRead(p, bidderId, amount, maxBid) ==
  /\ procs[p].pc \in {"idle", "done"}
  /\ procs[p].calls < MaxCallsPerProc
  /\ LET v1 == ValidateInputs(amount, maxBid)
         v2 == ValidateLot(lot, bidderId, amount, now, getIncrementRules(lot, auction))
         code == IF v1 # "OK" THEN v1 ELSE v2
     IN procs' = [procs EXCEPT ![p] =
                    IF code # "OK"
                    THEN ProcState("done", procs[p].calls + 1, NULL, 0, NULL,
                                   NoSnap, 0, NULL, code)
                    ELSE ProcState(IF lot.current_bidder_id # NULL THEN "maxbid"
                                   ELSE "txn",
                                   procs[p].calls + 1, bidderId, amount, maxBid,
                                   lot, now, NULL, "")]
  /\ UNCHANGED <<limiterVars, adminVars, invoices, faults, auction, lot, bids, audit, now, req, resp>>

(* await this.getActiveMaxBid(lotId, lot.current_bidder_id) *)
BidReadMax(p) ==
  /\ procs[p].pc = "maxbid"
  /\ \E hmax \in getActiveMaxBid(bids, procs[p].snap.current_bidder_id) :
       procs' = [procs EXCEPT ![p] = [@ EXCEPT !.pc = "txn", !.hmax = hmax]]
  /\ UNCHANGED <<limiterVars, adminVars, invoices, faults, auction, lot, bids, audit, now, req, resp>>

(* executeBidTransaction: the batch is built from the row read earlier and *)
(* committed on the rows stored now                                        *)
BidCommit(p) ==
  /\ procs[p].pc = "txn"
  /\ LET q == procs[p]
         r == executeBidTransaction(Db(lot, bids, audit), q.snap, q.bidderId,
                                    q.amount, q.maxBid, q.hmax,
                                    getIncrementRules(q.snap, auction), now)
     IN /\ SetDb(r.db)
        /\ procs' = [procs EXCEPT ![p] = [@ EXCEPT !.pc = "softclose",
                                                   !.code = r.resp.code]]
  /\ UNCHANGED <<limiterVars, adminVars, invoices, faults, auction, now, req, resp>>

(* checkSoftClose: SELECT of the auction and UPDATE lots *)
BidSoftClose(p) ==
  /\ procs[p].pc = "softclose"
  /\ IF SoftCloseDue(auction, procs[p].snap, procs[p].currentTime)
     THEN /\ lot' = checkSoftClose(Db(lot, bids, audit), auction, procs[p].snap,
                                   procs[p].currentTime).lot
          /\ procs' = [procs EXCEPT ![p] = [@ EXCEPT !.pc = "softaudit"]]
     ELSE /\ lot' = lot
          /\ Finish(p, procs[p].code)
  /\ UNCHANGED <<limiterVars, adminVars, invoices, faults, auction, bids, audit, now, req, resp>>

(* checkSoftClose: INSERT of the soft_close_triggered audit row *)
BidSoftCloseAudit(p) ==
  /\ procs[p].pc = "softaudit"
  /\ audit' = checkSoftClose(Db(lot, bids, audit), auction, procs[p].snap,
                             procs[p].currentTime).audit
  /\ Finish(p, procs[p].code)
  /\ UNCHANGED <<limiterVars, adminVars, invoices, faults, auction, lot, bids, now, req, resp>>

(* closeLot: SELECT of the lot *)
CloseRead ==
  /\ procs[CloserProc].pc = "idle"
  /\ procs' = [procs EXCEPT ![CloserProc] = [@ EXCEPT !.pc = "c_lot", !.snap = lot,
                                                      !.calls = 1]]
  /\ UNCHANGED <<limiterVars, adminVars, invoices, faults, auction, lot, bids, audit, now, req, resp>>

(* closeLot: UPDATE lots SET status, closed_at *)
CloseUpdateLot ==
  /\ procs[CloserProc].pc = "c_lot"
  /\ lot' = [lot EXCEPT !.status = closeStatus(procs[CloserProc].snap),
                        !.closed_at = now]
  /\ procs' = [procs EXCEPT ![CloserProc] = [@ EXCEPT !.pc = "c_won"]]
  /\ UNCHANGED <<limiterVars, adminVars, invoices, faults, auction, bids, audit, now, req, resp>>

(* closeLot: UPDATE bids SET status = 'won' *)
CloseMarkWon ==
  /\ procs[CloserProc].pc = "c_won"
  /\ LET snap == procs[CloserProc].snap IN
     bids' = IF snap.current_bidder_id # NULL /\ closeStatus(snap) = "sold"
             THEN MarkWon(bids, snap.current_bidder_id) ELSE bids
  /\ procs' = [procs EXCEPT ![CloserProc] = [@ EXCEPT !.pc = "c_lost"]]
  /\ UNCHANGED <<limiterVars, adminVars, invoices, faults, auction, lot, audit, now, req, resp>>

(* closeLot: UPDATE bids SET status = 'lost' *)
CloseMarkLost ==
  /\ procs[CloserProc].pc = "c_lost"
  /\ bids' = MarkLost(bids)
  /\ procs' = [procs EXCEPT ![CloserProc] = [@ EXCEPT !.pc = "c_audit"]]
  /\ UNCHANGED <<limiterVars, adminVars, invoices, faults, auction, lot, audit, now, req, resp>>

(* closeLot: INSERT of the lot_closed audit row *)
CloseAudit ==
  /\ procs[CloserProc].pc = "c_audit"
  /\ LET snap == procs[CloserProc].snap IN
     audit' = Log(audit, createAuditLog("lot_closed", snap.current_bidder_id,
                                        snap.current_bid, NULL, closeStatus(snap)))
  /\ Finish(CloserProc, "OK")
  /\ UNCHANGED <<limiterVars, adminVars, invoices, faults, auction, lot, bids, now, req, resp>>

NextConc ==
  \/ Publish
  \/ \E p \in Procs, b \in Bidders, a \in ConcAmounts, m \in ConcMaxBids :
       BidRead(p, b, a, m)
  \/ \E p \in Procs : BidReadMax(p)
  \/ \E p \in Procs : BidCommit(p)
  \/ \E p \in Procs : BidSoftClose(p)
  \/ \E p \in Procs : BidSoftCloseAudit(p)
  \/ CloseRead
  \/ CloseUpdateLot
  \/ CloseMarkWon
  \/ CloseMarkLost
  \/ CloseAudit

SpecConc == Init /\ [][NextConc]_vars

----------------------------------------------------------------------------
(* The lots table of one auction: POST /api/lots, the CSV and image         *)
(* importer of services/import.ts, and the publish and close routes.  An    *)
(* import awaits every statement, so other requests run between its steps.  *)

MaxLotNumber == 2
MaxCsvRows == 2
MaxBatches == 2
MaxFiles == 2

LotNumbers == 1..MaxLotNumber

(* a field of a CSV row that is empty or does not parse as a number (NaN) *)
NoValue == -1000

(* INSERT INTO lots of POST /api/lots and of the importer *)
LotRow(lotNumber, status) ==
  [ lot_number |-> lotNumber, status |-> status,
    reserve_price |-> NULL, reserve_met |-> FALSE, current_bidder_id |-> NULL,
    original_close_time |-> NULL, current_close_time |-> NULL, closed_at |-> NULL ]

(* SELECT ... FROM lots WHERE auction_id = ? AND lot_number = ? *)
LotExists(rows, lotNumber) == \E i \in DOMAIN rows : rows[i].lot_number = lotNumber

(* a data row of the CSV after parseCSVRow, by its required columns *)
CsvRow(lotNumber, hasTitle, startingBid) ==
  [lot_number |-> lotNumber, has_title |-> hasTitle, starting_bid |-> startingBid]

CsvRows ==
  {CsvRow(n, TRUE, 1) : n \in LotNumbers}
    \cup {CsvRow(1, FALSE, 1), CsvRow(MaxLotNumber, TRUE, -1), CsvRow(NoValue, TRUE, NoValue)}

RECURSIVE SeqsUpTo(_, _)
(* the sequences over S of length 1..n *)
SeqsUpTo(S, n) ==
  IF n = 0 THEN {}
  ELSE {<<x>> : x \in S} \cup {Append(q, x) : q \in SeqsUpTo(S, n - 1), x \in S}

CsvContents == SeqsUpTo(CsvRows, MaxCsvRows)

(* validateLotRow: the number of errors of the row *)
validateLotRow(row) ==
  (IF row.lot_number = NoValue THEN 1 ELSE 0)
    + (IF ~row.has_title THEN 1 ELSE 0)
    + (IF row.starting_bid = NoValue THEN 1
       ELSE IF row.starting_bid < 0 THEN 1 ELSE 0)

RECURSIVE SumErrors(_)
SumErrors(csv) ==
  IF csv = <<>> THEN 0 ELSE validateLotRow(Head(csv)) + SumErrors(Tail(csv))

(* the rows that passed validation, in input order *)
ValidRows(csv) == SelectSeq(csv, LAMBDA row : validateLotRow(row) = 0)

(* duplicate lot numbers in the CSV: one error per row that repeats a number *)
DuplicateErrors(rows) ==
  Cardinality({i \in DOMAIN rows : \E j \in 1..(i - 1) : rows[j].lot_number = rows[i].lot_number})

(* lot numbers of the CSV that the auction already has: one error per lot *)
ExistingErrors(rows, table) ==
  Cardinality({i \in DOMAIN table : \E j \in DOMAIN rows : rows[j].lot_number = table[i].lot_number})

(* INSERT INTO import_batches *)
BatchRow(type, status, total, successful, failed) ==
  [ import_type |-> type, status |-> status, total_items |-> total,
    successful_items |-> successful, failed_items |-> failed ]

(* POST /api/auctions inserts a draft; the auction has no lot yet *)
InitAdmin ==
  /\ auction = AuctionConfig("draft", MaxTime, TRUE, 1, 1, Json(SmallRules))
  /\ lot = NoSnap
  /\ bids = <<>>
  /\ audit = EmptyBag
  /\ now = 0
  /\ invoices = NoInvoices
  /\ faults = 0
  /\ req = NoReq
  /\ resp = Resp("init", "OK", TRUE, NULL)
  /\ NoAdmin
  /\ NoLimiter
  /\ procs = [p \in Procs \cup {CloserProc} |-> IdleProc]

(* POST /api/lots *)
CreateLot(lotNumber) ==
  /\ IF LotExists(lotRows, lotNumber)
     THEN /\ resp' = Resp("create_lot", "DUPLICATE", FALSE, NULL)
          /\ UNCHANGED lotRows
     ELSE /\ lotRows' = Append(lotRows,
                               LotRow(lotNumber, IF auction.status = "draft"
                                                 THEN "pending" ELSE "active"))
          /\ resp' = Resp("create_lot", "OK", TRUE, NULL)
  /\ UNCHANGED <<import_batches, image_mappings, imp>>
  /\ UNCHANGED <<limiterVars, auction, lot, bids, audit, invoices, faults, now, req, procs>>

(* POST /api/auctions/:id/publish *)
PublishAuction ==
  /\ IF auction.status # "draft"
     THEN /\ resp' = Resp("publish_auction", "NOT_DRAFT", FALSE, NULL)
          /\ UNCHANGED <<auction, lotRows>>
     ELSE IF Len(lotRows) = 0
     THEN /\ resp' = Resp("publish_auction", "NO_LOTS", FALSE, NULL)
          /\ UNCHANGED <<auction, lotRows>>
     ELSE /\ auction' = [auction EXCEPT !.status = "published"]
          /\ lotRows' = [i \in DOMAIN lotRows |->
                           IF lotRows[i].status = "pending"
                           THEN [lotRows[i] EXCEPT !.status = "active",
                                                   !.original_close_time = auction.end_date,
                                                   !.current_close_time = auction.end_date]
                           ELSE lotRows[i]]
          /\ resp' = Resp("publish_auction", "OK", TRUE, NULL)
  /\ UNCHANGED <<import_batches, image_mappings, imp>>
  /\ UNCHANGED <<limiterVars, lot, bids, audit, invoices, faults, now, req, procs>>

(* POST /api/auctions/:id/close, over the lots table *)
CloseAuctionLots ==
  /\ auction' = [auction EXCEPT !.status = "closed"]
  /\ lotRows' = [i \in DOMAIN lotRows |->
                   IF lotRows[i].status = "active"
                   THEN [lotRows[i] EXCEPT !.status = closeStatus(lotRows[i]),
                                           !.closed_at = now]
                   ELSE lotRows[i]]
  /\ resp' = Resp("close_auction", "OK", TRUE, NULL)
  /\ UNCHANGED <<import_batches, image_mappings, imp>>
  /\ UNCHANGED <<limiterVars, lot, bids, audit, invoices, faults, now, req, procs>>

(* importLotsFromCSV up to its first await: parse, validate, look for       *)
(* duplicates in the CSV and for lot numbers the auction already has        *)
ImportBegin(csv) ==
  LET rows == ValidRows(csv)
      errors == SumErrors(csv) + DuplicateErrors(rows) + ExistingErrors(rows, lotRows)
  IN /\ imp.pc = "idle"
     /\ Len(import_batches) < MaxBatches
     /\ imp' = [pc |-> IF errors = 0 /\ Len(rows) > 0 THEN "insert" ELSE "record",
                csv |-> csv, rows |-> rows, errors |-> errors, next |-> 1,
                successfulItems |-> 0]
     /\ resp' = Resp("import_lots_csv", "", FALSE, NULL)
     /\ UNCHANGED <<lotRows, import_batches, image_mappings>>
     /\ UNCHANGED <<limiterVars, auction, lot, bids, audit, invoices, faults, now, req, procs>>

(* one turn of the insert loop: INSERT INTO lots in try / catch; the table  *)
(* has UNIQUE(auction_id, lot_number)                                       *)
ImportInsert ==
  /\ imp.pc = "insert"
  /\ LET row == imp.rows[imp.next]
         fails == LotExists(lotRows, row.lot_number)
     IN /\ lotRows' = IF fails THEN lotRows
                      ELSE Append(lotRows, LotRow(row.lot_number, "pending"))
        /\ imp' = [imp EXCEPT !.errors = IF fails THEN @ + 1 ELSE @,
                              !.successfulItems = IF fails THEN @ ELSE @ + 1,
                              !.next = @ + 1,
                              !.pc = IF imp.next = Len(imp.rows) THEN "record" ELSE "insert"]
  /\ resp' = Resp("import_lots_csv", "", FALSE, NULL)
  /\ UNCHANGED <<import_batches, image_mappings>>
  /\ UNCHANGED <<limiterVars, auction, lot, bids, audit, invoices, faults, now, req, procs>>

(* INSERT INTO import_batches and the result of importLotsFromCSV *)
ImportRecord ==
  /\ imp.pc = "record"
  /\ import_batches' =
       Append(import_batches,
              BatchRow("lots_csv", IF imp.errors > 0 THEN "failed" ELSE "completed",
                       Len(imp.rows), imp.successfulItems, imp.errors))
  /\ imp' = IdleImport
  /\ resp' = Resp("import_lots_csv", IF imp.errors > 0 THEN "FAILED" ELSE "OK",
                  imp.errors = 0, NULL)
  /\ UNCHANGED <<lotRows, image_mappings>>
  /\ UNCHANGED <<limiterVars, auction, lot, bids, audit, invoices, faults, now, req, procs>>

(* An uploaded file name: what stands before the lot number, the lot       *)
(* number, the separator, the photo order and the extension.  A name       *)
(* without digits has lot and order NULL.                                  *)
FileName(prefix, lotNumber, separator, photoOrder, extension) ==
  [ prefix |-> prefix, lot |-> lotNumber, separator |-> separator,
    order |-> photoOrder, extension |-> extension ]

(* the /i flag of the patterns *)
LowerCase(str) ==
  CASE str = "PNG" -> "png"
    [] str = "LOT_" -> "lot_"
    [] OTHER -> str

ImageExtensions == {"jpg", "jpeg", "png", "gif", "webp", "heic"}

(* 1-1.jpg, lot_1_1.PNG, 1.1.webp, LOT_1-2.jpg, 2-1.jpg, 1-1.txt, foo.jpg *)
FileNames ==
  { FileName("", 1, "-", 1, "jpg"), FileName("lot_", 1, "_", 1, "PNG"),
    FileName("", 1, ".", 1, "webp"), FileName("LOT_", 1, "-", 2, "jpg"),
    FileName("", MaxLotNumber, "-", 1, "jpg"), FileName("", 1, "-", 1, "txt"),
    FileName("foo", NULL, "", NULL, "jpg") }

NotParsed == [lotNumber |-> NULL, photoOrder |-> NULL]

(* parseImageFilename: strip a known extension, then try the four patterns *)
parseImageFilename(f) ==
  LET stripped == LowerCase(f.extension) \in ImageExtensions
      digits == f.lot # NULL /\ f.order # NULL
      dashed == f.prefix = "" /\ f.separator = "-"
      lotted == /\ LowerCase(f.prefix) \in {"lot", "lot_", "lot-"}
                /\ f.separator \in {"_", "-"}
      underscored == f.prefix = "" /\ f.separator = "_"
      dotted == f.prefix = "" /\ f.separator = "."
  IN IF stripped /\ digits /\ (dashed \/ lotted \/ underscored \/ dotted)
     THEN [lotNumber |-> f.lot, photoOrder |-> f.order]
     ELSE NotParsed

(* lotMap.get(lotNumber): the id of the lot, its place in the table *)
LotId(rows, lotNumber) ==
  IF LotExists(rows, lotNumber)
  THEN CHOOSE i \in DOMAIN rows : rows[i].lot_number = lotNumber
  ELSE NULL

(* INSERT INTO image_mappings for one image *)
ImageMapping(rows, f) ==
  LET parsed == parseImageFilename(f)
      lotId == LotId(rows, parsed.lotNumber)
  IN IF parsed.lotNumber # NULL /\ lotId # NULL
     THEN [ filename |-> f, parsed_lot_number |-> parsed.lotNumber,
            parsed_photo_order |-> parsed.photoOrder, match_status |-> "matched",
            assigned_lot_id |-> lotId, assigned_order |-> parsed.photoOrder ]
     ELSE [ filename |-> f, parsed_lot_number |-> parsed.lotNumber,
            parsed_photo_order |-> parsed.photoOrder, match_status |-> "unmatched",
            assigned_lot_id |-> NULL, assigned_order |-> NULL ]

(* processBulkImages: the mappings of a batch, image by image *)
processBulkImages(rows, images) ==
  [i \in DOMAIN images |-> ImageMapping(rows, images[i])]

ImageBatches == SeqsUpTo(FileNames, MaxFiles)

(* POST of a bulk image upload: processBulkImages and its batch record *)
MatchImages(images) ==
  LET results == processBulkImages(lotRows, images)
      matched == Cardinality({i \in DOMAIN results : results[i].match_status = "matched"})
      unmatched == Cardinality({i \in DOMAIN results : results[i].match_status = "unmatched"})
  IN /\ Len(import_batches) < MaxBatches
     /\ image_mappings' = results
     /\ import_batches' =
          Append(import_batches,
                 BatchRow("images_bulk", IF unmatched > 0 THEN "partial" ELSE "completed",
                          Len(images), matched, unmatched))
     /\ resp' = Resp("match_images", "OK", TRUE, NULL)
     /\ UNCHANGED <<lotRows, imp>>
     /\ UNCHANGED <<limiterVars, auction, lot, bids, audit, invoices, faults, now, req, procs>>

NextImages ==
  \/ \E n \in LotNumbers : CreateLot(n)
  \/ \E images \in ImageBatches : MatchImages(images)

SpecImages == InitAdmin /\ [][NextImages]_vars

NextAdmin ==
  \/ \E n \in LotNumbers : CreateLot(n)
  \/ PublishAuction
  \/ CloseAuctionLots
  \/ \E csv \in CsvContents : ImportBegin(csv)
  \/ ImportInsert
  \/ ImportRecord

SpecAdmin == InitAdmin /\ [][NextAdmin]_vars

----------------------------------------------------------------------------
(* The rate limiter of utils/auth.ts, scaled down: bidRateLimiter is        *)
(* new RateLimiter(10, 60000)                                               *)

maxAttempts == 2
windowMs == 3
MaxClock == 6

(* faulty variant of isAllowed: the call is refused one attempt too late *)
isAllowed_OneTooMany(atts, key, t) ==
  LET recentAttempts == SelectSeq(atts[key], LAMBDA time : t - time < windowMs)
  IN IF Len(recentAttempts) > maxAttempts
     THEN [allowed |-> FALSE, attempts |-> atts]
     ELSE [allowed |-> TRUE,
           attempts |-> [atts EXCEPT ![key] = Append(recentAttempts, t)]]

(* RateLimiter.isAllowed(key) at Date.now() = t *)
isAllowed(atts, key, t) ==
  LET recentAttempts == SelectSeq(atts[key], LAMBDA time : t - time < windowMs)
  IN IF Len(recentAttempts) >= maxAttempts
     THEN [allowed |-> FALSE, attempts |-> atts]
     ELSE [allowed |-> TRUE,
           attempts |-> [atts EXCEPT ![key] = Append(recentAttempts, t)]]

(* Date.now() moves on *)
ClockTick ==
  /\ clock < MaxClock
  /\ clock' = clock + 1
  /\ UNCHANGED <<attempts, admitted, lastCall>>
  /\ UNCHANGED <<adminVars, auction, lot, bids, audit, invoices, faults, now, req, resp, procs>>

(* bidRateLimiter.isAllowed(`bid:${userId}`) in POST /api/bids/:lotId *)
IsAllowed(key) ==
  LET r == isAllowed(attempts, key, clock)
  IN /\ attempts' = r.attempts
     /\ admitted' = IF r.allowed THEN [admitted EXCEPT ![key] = Append(@, clock)]
                    ELSE admitted
     /\ lastCall' = [key |-> key, allowed |-> r.allowed]
     /\ UNCHANGED clock
     /\ UNCHANGED <<adminVars, auction, lot, bids, audit, invoices, faults, now, req, resp, procs>>

NextLimiter ==
  \/ ClockTick
  \/ \E k \in Keys : IsAllowed(k)

SpecLimiter == InitAdmin /\ [][NextLimiter]_vars

----------------------------------------------------------------------------
(* Properties of concurrent requests *)

WinningRows == {i \in DOMAIN bids : bids[i].is_winning}

BidsFinished == \A p \in Procs : procs[p].pc \in {"idle", "done"}

(* C1: after any interleaving of concurrent place_bid calls on the lot,    *)
(* once every call has returned and a bid was accepted, exactly one Bid    *)
(* row is winning, its amount is lot.current_bid and its bidder is         *)
(* lot.current_bidder_id.                                                  *)
C1_OneWinningBid ==
  (BidsFinished /\ procs[CloserProc].pc = "idle" /\ bids # <<>>) =>
    \E i \in WinningRows :
      /\ WinningRows = {i}
      /\ bids[i].amount = lot.current_bid
      /\ bids[i].bidder_id = lot.current_bidder_id

(* C2: place_bid and close_lot on one lot are serial: once the lot is sold *)
(* or unsold no step changes current_bid, current_bidder_id, bid_count or  *)
(* current_close_time, and when all requests have returned every Bid       *)
(* marked won belongs to the lot's current_bidder_id.                      *)
C2_ClosedLotFrozen ==
  /\ [][lot.status \in {"sold", "unsold"} =>
          /\ lot'.current_bid = lot.current_bid
          /\ lot'.current_bidder_id = lot.current_bidder_id
          /\ lot'.bid_count = lot.bid_count
          /\ lot'.current_close_time = lot.current_close_time]_vars
  /\ []((BidsFinished /\ procs[CloserProc].pc = "done") =>
          \A i \in DOMAIN bids :
            bids[i].status = "won" => bids[i].bidder_id = lot.current_bidder_id)

----------------------------------------------------------------------------
(* Properties of place_bid, one call at a time *)

(* the lot takes bids: it is active and its close time is not reached *)
Open ==
  /\ lot.status = "active"
  /\ (lot.current_close_time = NULL \/ now < lot.current_close_time)

ValidInputs(a, m) == a > 0 /\ (m = NULL \/ m >= a)

(* the tiers that apply to the lot: its own override before the auction's *)
EffectiveTiers ==
  IF ~lot.increment_override.isNull THEN lot.increment_override.rules
  ELSE IF auction.increment_rules.isNull THEN DefaultRules
  ELSE auction.increment_rules.rules

MatchingTiers(cur) ==
  {i \in DOMAIN EffectiveTiers :
     /\ EffectiveTiers[i].min <= cur
     /\ (EffectiveTiers[i].max = NoMax \/ cur < EffectiveTiers[i].max)}

StepDefined == MatchingTiers(lot.current_bid) # {}

(* step of the first tier {min, max, step} with min <= current_bid < max *)
Step ==
  LET first == CHOOSE i \in MatchingTiers(lot.current_bid) :
                 \A j \in MatchingTiers(lot.current_bid) : i <= j
  IN EffectiveTiers[first].increment

FloorDefined == lot.current_bid = 0 \/ StepDefined

Floor == IF lot.current_bid = 0 THEN lot.starting_bid ELSE lot.current_bid + Step

(* the active maxima of the current high bidder *)
HighMaxes ==
  {bids[i].max_bid : i \in {j \in DOMAIN bids :
                              /\ lot.current_bidder_id # NULL
                              /\ bids[j].bidder_id = lot.current_bidder_id
                              /\ bids[j].is_max_bid_active}}

(* the call passes the five preconditions of place_bid *)
PassesChecks(b, a, m) ==
  /\ ValidInputs(a, m)
  /\ Open
  /\ FloorDefined
  /\ a >= Floor
  /\ b # lot.current_bidder_id

LotBidStateUnchanged ==
  /\ lot'.current_bid = lot.current_bid
  /\ lot'.current_bidder_id = lot.current_bidder_id
  /\ lot'.bid_count = lot.bid_count
  /\ lot'.current_close_time = lot.current_close_time
  /\ lot'.extension_count = lot.extension_count

(* the pending request passes the five preconditions of place_bid *)
ReqPasses == req.pending /\ PassesChecks(req.bidderId, req.amount, req.maxBid)

(* C3: case A.  A call that passes the checks while the high bidder has no *)
(* active max (or there is no high bidder) is accepted: one winning Bid    *)
(* row of the bidder at `amount` is appended, the lot gets current_bid =   *)
(* amount, current_bidder_id = bidder and bid_count + 1, and no earlier    *)
(* row stays winning.                                                      *)
C3_CaseAAccepts ==
  [][(ReqPasses /\ HighMaxes = {}) =>
       /\ resp'.code = "BID_SUCCESS"
       /\ Len(bids') = Len(bids) + 1
       /\ bids'[Len(bids')].bidder_id = req.bidderId
       /\ bids'[Len(bids')].amount = req.amount
       /\ bids'[Len(bids')].is_winning
       /\ \A i \in DOMAIN bids : ~bids'[i].is_winning
       /\ lot'.current_bid = req.amount
       /\ lot'.current_bidder_id = req.bidderId
       /\ lot'.bid_count = lot.bid_count + 1]_vars

(* a simple bid has outbid the previous winner *)
C3_Witness ==
  /\ resp.code = "BID_SUCCESS"
  /\ Len(bids) = 2
  /\ lot.bid_count = 2
  /\ bids[1].status = "outbid" /\ ~bids[1].is_winning
  /\ bids[2].is_winning /\ bids[2].bid_type = "manual"
  /\ bids[2].bidder_id = lot.current_bidder_id

(* what the new bidder offers: max_bid ?? amount *)
Offered == IF req.maxBid # NULL THEN req.maxBid ELSE req.amount

(* the close time of the lot is reached *)
PastClose == lot.current_close_time # NULL /\ now >= lot.current_close_time

(* C4: case C, the proxy defends.  A call that passes the checks against a *)
(* high bidder with active max H_max, with no max_bid or a max_bid below   *)
(* H_max, returns OUTBID_BY_PROXY and has changed the state: two Bid rows  *)
(* are appended, lot.current_bid = min(H_max, (max_bid ?? amount) + step), *)
(* the high bidder is unchanged, bid_count grows by 2 and the current bid  *)
(* reported to the caller is the stored one.                               *)
C4_CaseCDefends ==
  [][\A h \in HighMaxes :
       (ReqPasses /\ (req.maxBid = NULL \/ req.maxBid < h)) =>
         /\ resp'.code = "OUTBID_BY_PROXY"
         /\ Len(bids') = Len(bids) + 2
         /\ lot'.current_bid = Min(h, Offered + Step)
         /\ lot'.current_bidder_id = lot.current_bidder_id
         /\ lot'.bid_count = lot.bid_count + 2
         /\ resp'.currentBid = lot'.current_bid]_vars

(* C5: case B, the proxy is overtaken.  A call that passes the checks with *)
(* max_bid above the high bidder's active max H_max makes the new bidder   *)
(* the high bidder at min(max_bid, H_max + step), appends a non-winning    *)
(* proxy Bid at H_max for the previous high bidder, leaves no max bid of   *)
(* the previous high bidder active, and adds 2 to bid_count.               *)
C5_CaseBOvertakes ==
  [][\A h \in HighMaxes :
       (ReqPasses /\ req.maxBid # NULL /\ req.maxBid > h) =>
         /\ resp'.code = "BID_SUCCESS"
         /\ lot'.current_bidder_id = req.bidderId
         /\ lot'.current_bid = Min(req.maxBid, h + Step)
         /\ lot'.bid_count = lot.bid_count + 2
         /\ Len(bids') = Len(bids) + 2
         /\ \E i \in DOMAIN bids' \ DOMAIN bids :
              /\ bids'[i].bidder_id = req.bidderId
              /\ bids'[i].amount = lot'.current_bid
              /\ bids'[i].is_winning
         /\ \E i \in DOMAIN bids' \ DOMAIN bids :
              /\ bids'[i].bidder_id = lot.current_bidder_id
              /\ bids'[i].bid_type = "proxy_auto"
              /\ bids'[i].amount = h
              /\ ~bids'[i].is_winning
         /\ \A i \in DOMAIN bids' :
              bids'[i].bidder_id = lot.current_bidder_id =>
                ~bids'[i].is_max_bid_active]_vars

(* a max of 2 was overtaken by a max of 3: three rows, the last the proxy *)
C5_Witness ==
  /\ resp.code = "BID_SUCCESS"
  /\ Len(bids) = 3
  /\ lot.bid_count = 3
  /\ bids[1].max_bid # NULL /\ ~bids[1].is_max_bid_active /\ ~bids[1].is_winning
  /\ bids[2].is_winning /\ bids[2].bidder_id = lot.current_bidder_id
  /\ bids[2].max_bid > bids[1].max_bid
  /\ bids[3].bid_type = "proxy_auto" /\ bids[3].amount = bids[1].max_bid
  /\ lot.current_bid = Min(bids[2].max_bid, bids[1].max_bid + 1)

(* C6: case D, tie on max.  A call that passes the checks with max_bid     *)
(* equal to the high bidder's active max returns MAX_BID_TIED and leaves   *)
(* current_bid, current_bidder_id, bid_count, current_close_time,          *)
(* extension_count and all Bid rows unchanged, also inside the soft-close  *)
(* trigger window.                                                         *)
C6_TieChangesNothing ==
  [][\A h \in HighMaxes :
       (ReqPasses /\ req.maxBid = h) =>
         /\ resp'.code = "MAX_BID_TIED"
         /\ LotBidStateUnchanged
         /\ bids' = bids]_vars

(* C7: lot.current_bid never decreases, and a place_bid that returns       *)
(* success leaves it strictly greater than before the call.                *)
C7_CurrentBidIncreases ==
  [][/\ lot'.current_bid >= lot.current_bid
     /\ (req.pending /\ resp'.success) => lot'.current_bid > lot.current_bid]_vars

(* C8: a place_bid at now >= current_close_time changes neither the lot    *)
(* nor a Bid row and is not accepted; on an active lot with valid inputs   *)
(* it returns AUCTION_CLOSED.  A call one second before the close time     *)
(* that passes the checks and is not met by a proxy is accepted.           *)
C8_NoBidAtOrAfterClose ==
  [][/\ (req.pending /\ PastClose) =>
          /\ lot' = lot
          /\ bids' = bids
          /\ ~resp'.success
          /\ (ValidInputs(req.amount, req.maxBid) /\ lot.status = "active") =>
                resp'.code = "AUCTION_CLOSED"
     /\ ( /\ ReqPasses
          /\ lot.current_close_time # NULL
          /\ now = lot.current_close_time - 1
          /\ \A h \in HighMaxes : req.maxBid # NULL /\ req.maxBid > h ) =>
          /\ resp'.code = "BID_SUCCESS"
          /\ lot'.current_bidder_id = req.bidderId]_vars

(* a bid was taken one second before the close and one refused at the close *)
C8_Witness ==
  /\ resp.code = "AUCTION_CLOSED"
  /\ lot.status = "active"
  /\ PastClose
  /\ \E i \in DOMAIN bids : bids[i].created_at = lot.current_close_time - 1

(* C9: for an active, open lot and a call with valid inputs, place_bid     *)
(* returns BID_TOO_LOW exactly when amount < floor, floor being            *)
(* starting_bid when current_bid = 0 and else current_bid + the step of    *)
(* the first tier with min <= current_bid < max, the lot's override tiers  *)
(* before the auction's; a bid of exactly floor is not too low, and the    *)
(* rejected call changes no state.                                         *)
C9_TooLowExactlyBelowFloor ==
  [][(req.pending /\ ValidInputs(req.amount, req.maxBid) /\ Open /\ FloorDefined) =>
       /\ (resp'.code = "BID_TOO_LOW") <=> (req.amount < Floor)
       /\ resp'.code = "BID_TOO_LOW" =>
            (lot' = lot /\ bids' = bids /\ audit' = audit)]_vars

(* a bid below the floor of the second tier was refused *)
C9_Witness ==
  /\ resp.code = "BID_TOO_LOW"
  /\ Open
  /\ lot.current_bid >= 3
  /\ StepDefined
  /\ Step = 2
  /\ Floor > MaxAmount

----------------------------------------------------------------------------
(* Soft close, audit and closing *)

(* the number of audit rows of one event type *)
Events(au, eventType) ==
  LET of == {e \in BagToSet(au) : e.event_type = eventType}
  IN BagCardinality([e \in of |-> CopiesIn(e, au)])

(* the call changed the bid state of the lot *)
BidStateChanged ==
  \/ bids' # bids
  \/ lot'.current_bid # lot.current_bid
  \/ lot'.current_bidder_id # lot.current_bidder_id
  \/ lot'.bid_count # lot.bid_count

(* the lot is inside the soft-close trigger window of its auction *)
InTriggerWindow ==
  /\ auction.soft_close_enabled
  /\ lot.current_close_time # NULL
  /\ lot.current_close_time - now <= auction.soft_close_trigger_minutes * SecondsPerMinute

(* C11: soft close.  A place_bid that changed the bid state while soft     *)
(* close is enabled and current_close_time - now <= trigger window sets    *)
(* current_close_time = now + extension, adds exactly 1 to extension_count *)
(* and writes one soft_close_triggered audit event; a call outside the     *)
(* window, or one that changed no bid state, leaves close time and         *)
(* extension_count as they were.                                           *)
C11_SoftCloseOnAcceptedBid ==
  [][req.pending =>
       IF BidStateChanged /\ InTriggerWindow
       THEN /\ lot'.current_close_time =
                 now + auction.soft_close_extension_minutes * SecondsPerMinute
            /\ lot'.extension_count = lot.extension_count + 1
            /\ Events(audit', "soft_close_triggered") =
                 Events(audit, "soft_close_triggered") + 1
       ELSE /\ lot'.current_close_time = lot.current_close_time
            /\ lot'.extension_count = lot.extension_count]_vars

(* C12: current_close_time never decreases and is never below             *)
(* original_close_time, whatever the trigger window and the extension of   *)
(* the auction are.                                                        *)
C12_CloseTimeOnlyGrows ==
  /\ [][lot'.current_close_time >= lot.current_close_time]_vars
  /\ [](lot.current_close_time >= lot.original_close_time)

(* the result codes of a call rejected by a precondition or a policy rule *)
RejectCodes ==
  {"INVALID_AMOUNT", "INVALID_MAX_BID", "LOT_NOT_ACTIVE", "AUCTION_CLOSED",
   "BID_TOO_LOW", "SELF_OUTBID", "MAX_BID_TIED"}

(* C13: a place_bid rejected by a precondition or policy rule appends      *)
(* exactly one bid_rejected audit event, and every place_bid appends at    *)
(* least one audit event.                                                  *)
C13_RejectionIsAudited ==
  [][req.pending =>
       /\ BagCardinality(audit') > BagCardinality(audit)
       /\ resp'.code \in RejectCodes =>
            Events(audit', "bid_rejected") = Events(audit, "bid_rejected") + 1]_vars

(* the step closes the lot *)
LotCloses == lot'.status # lot.status /\ lot'.status \in {"sold", "unsold"}

(* C14: a lot that is closed, by close_lot or by close_auction, becomes    *)
(* sold exactly when current_bidder_id is set and the reserve is absent or *)
(* met; otherwise it becomes unsold and no Bid is marked won.              *)
C14_SoldIffBidderAndReserve ==
  [][LotCloses =>
       /\ (lot'.status = "sold") <=>
            /\ lot.current_bidder_id # NULL
            /\ (lot.reserve_price = NULL \/ lot.reserve_met)
       /\ lot'.status = "unsold" =>
            \A i \in DOMAIN bids' : bids'[i].status # "won"]_vars

(* C15: close_lot on a lot that is not active, an already closed lot       *)
(* included, changes nothing: the lot row, the Bid statuses and the audit  *)
(* log are as before, so closing twice equals closing once.                *)
C15_CloseLotIdempotent ==
  [][(resp'.op = "close_lot" /\ lot.status # "active") =>
       (lot' = lot /\ bids' = bids /\ audit' = audit)]_vars

(* C16: a lot that was closed has exactly one lot_closed audit event,      *)
(* whichever closer closed it and however often close was run.             *)
C16_OneLotClosedEvent ==
  lot.status \in {"sold", "unsold"} => Events(audit, "lot_closed") = 1

(* the moves of the lot status that go forward *)
ForwardMoves ==
  {<<"pending", "active">>, <<"active", "sold">>, <<"active", "unsold">>,
   <<"active", "withdrawn">>}

(* C17: the lot status only moves forward along pending -> active ->       *)
(* {sold, unsold, withdrawn}.                                              *)
C17_StatusMovesForward ==
  [][lot'.status # lot.status => <<lot.status, lot'.status>> \in ForwardMoves]_vars

----------------------------------------------------------------------------
(* Invoices *)

(* no bidder has two invoices of the auction *)
OneInvoicePerBidder ==
  \A i, j \in DOMAIN invoices.rows :
    invoices.rows[i].bidder_id = invoices.rows[j].bidder_id => i = j

(* C18 as stated: a generate_invoices call after an earlier call for the   *)
(* auction, whatever that call produced, returns ALREADY_GENERATED and     *)
(* leaves the invoices unchanged, and no bidder has two invoices.          *)
C18_SecondGenerateRejected ==
  /\ [][(resp'.op = "generate_invoices" /\ invoices.generate_log >= 1) =>
          /\ resp'.code = "ALREADY_GENERATED"
          /\ invoices'.rows = invoices.rows]_vars
  /\ []OneInvoicePerBidder

(* C18 amended: a generate_invoices call for an auction that has an        *)
(* invoice returns ALREADY_GENERATED and leaves the invoices unchanged,    *)
(* and no bidder has two invoices.                                         *)
C18_GenerateRejectedOnceInvoiced ==
  /\ [][(resp'.op = "generate_invoices" /\ Len(invoices.rows) > 0) =>
          /\ resp'.code = "ALREADY_GENERATED"
          /\ invoices'.rows = invoices.rows]_vars
  /\ []OneInvoicePerBidder

(* a second call found the invoice of the sold lot *)
C18_Witness ==
  /\ resp.code = "ALREADY_GENERATED"
  /\ lot.status = "sold"
  /\ Len(invoices.rows) = 1
  /\ invoices.rows[1].bidder_id = lot.current_bidder_id

(* half-up rounding to the cent of an amount in units of 1 / MoneyScale cent *)
RoundHalfUp(amount) == ((amount + MoneyScale \div 2) \div MoneyScale) * MoneyScale

(* C19: in every invoice each item's premium_amount and tax_amount are     *)
(* winning_bid x premium_rate and (winning_bid + premium_amount) x         *)
(* tax_rate rounded half-up to the cent, line_total is the sum of the      *)
(* item's four amounts, and total = subtotal + premium + tax + shipping =  *)
(* the sum of the items' line_total.                                       *)
C19_InvoiceAmountsRounded ==
  \A n \in DOMAIN invoices.rows :
    LET inv == invoices.rows[n] IN
    /\ \A k \in DOMAIN inv.items :
         LET it == inv.items[k] IN
         /\ it.buyers_premium_amount =
              RoundHalfUp(Times(it.winning_bid, it.buyers_premium_rate))
         /\ it.tax_amount =
              RoundHalfUp(Times(it.winning_bid + it.buyers_premium_amount, it.tax_rate))
         /\ it.line_total = it.winning_bid + it.buyers_premium_amount
                            + it.tax_amount + it.shipping_amount
    /\ inv.total = inv.subtotal + inv.buyers_premium + inv.tax + inv.shipping
    /\ inv.total = SumOver(inv.items, "line_total")

----------------------------------------------------------------------------
(* Aborted transactions *)

(* the pending call gets as far as the bid transaction *)
ReqCommits ==
  /\ ReqPasses
  /\ \A h \in HighMaxes : req.maxBid # NULL /\ req.maxBid > h

(* C20: when the store aborts the bid transaction place_bid retries the    *)
(* whole operation up to 3 times: a call whose attempts are all aborted    *)
(* returns TRANSIENT_CONFLICT and changes neither the lot nor a Bid row    *)
(* nor writes a bid_placed event, and a call that meets fewer aborts       *)
(* returns the result of the attempt that commits.  With the first        *)
(* attempt and three retries, 4 aborts exhaust the call.                   *)
C20_AbortedBidIsRetried ==
  [][(ReqCommits /\ faults > 0) =>
       IF faults >= 4
       THEN /\ resp'.code = "TRANSIENT_CONFLICT"
            /\ lot' = lot
            /\ bids' = bids
            /\ Events(audit', "bid_placed") = Events(audit, "bid_placed")
       ELSE /\ resp'.code = "BID_SUCCESS"
            /\ lot'.current_bidder_id = req.bidderId
            /\ Len(bids') > Len(bids)]_vars

----------------------------------------------------------------------------
(* Invariants of the lot and its bids, one call at a time *)

(* the rows of a bidder whose max is active *)
ActiveMaxRows(b) == {i \in DOMAIN bids : bids[i].bidder_id = b /\ bids[i].is_max_bid_active}

(* C25: after any sequence of place_bid calls every user has at most one   *)
(* Bid row with an active max, and such a row belongs to the lot's current *)
(* high bidder.                                                            *)
C25_OneActiveMaxOfHighBidder ==
  \A b \in Bidders :
    /\ Cardinality(ActiveMaxRows(b)) <= 1
    /\ ActiveMaxRows(b) # {} => b = lot.current_bidder_id

(* an overtaken max is inactive while the high bidder's max is active *)
C25_Witness ==
  \E i, j \in DOMAIN bids :
    /\ bids[i].bidder_id # bids[j].bidder_id
    /\ bids[i].max_bid # NULL /\ ~bids[i].is_max_bid_active
    /\ bids[j].is_max_bid_active
    /\ bids[j].bidder_id = lot.current_bidder_id

C28_BidCountIsRowCount ==
  /\ lot.bid_count = Len(bids)
  /\ (lot.bid_count = 0) <=> (lot.current_bid = 0 /\ lot.current_bidder_id = NULL)

(* two rows were written by one call *)
C28_Witness ==
  /\ lot.bid_count = 3
  /\ Len(bids) = 3
  /\ bids[3].bid_type = "proxy_auto"
  /\ resp.code = "BID_SUCCESS"

----------------------------------------------------------------------------
(* The rate limiter *)

(* the calls of key k admitted at a time in [s, s + windowMs) *)
AdmittedIn(k, s) ==
  {i \in DOMAIN admitted[k] : s <= admitted[k][i] /\ admitted[k][i] < s + windowMs}

(* C27: per key at most maxAttempts calls are admitted in any window of    *)
(* windowMs, the stored timestamps of a key never exceed maxAttempts, and  *)
(* the attempts of a key change only by an admitted call for that key (a   *)
(* denied call is not recorded, keys do not affect one another).           *)
C27_AtMostMaxAttemptsPerWindow ==
  /\ [](\A k \in Keys :
          /\ Len(attempts[k]) <= maxAttempts
          /\ \A s \in 0..MaxClock : Cardinality(AdmittedIn(k, s)) <= maxAttempts)
  /\ [][\A k \in Keys :
          attempts'[k] # attempts[k] => lastCall'.key = k /\ lastCall'.allowed]_vars

(* a key was admitted again after its window slid, and is then denied *)
C27_Witness ==
  \E k \in Keys :
    /\ Len(admitted[k]) > maxAttempts
    /\ lastCall = [key |-> k, allowed |-> FALSE]

----------------------------------------------------------------------------
(* The lots table, the importer and the auction's status *)

(* a row with a validation error, two rows with one lot number, or a lot   *)
(* number the auction already has                                          *)
CsvProblem(csv, table) ==
  \/ \E i \in DOMAIN csv : validateLotRow(csv[i]) > 0
  \/ \E i, j \in DOMAIN csv : i # j /\ csv[i].lot_number = csv[j].lot_number
  \/ \E i \in DOMAIN csv : LotExists(table, csv[i].lot_number)

(* C21: a CSV import is all or nothing.  A CSV with a problem inserts no   *)
(* lot and its batch is recorded failed; otherwise every row is inserted   *)
(* and the batch is recorded completed.  So a failed batch has inserted    *)
(* nothing and a completed one has inserted every row.                     *)
C21_ImportAllOrNothing ==
  /\ [][imp.pc = "idle" /\ imp'.pc # "idle" =>
          (CsvProblem(imp'.csv, lotRows) <=> imp'.pc = "record" /\ imp'.errors > 0)]_vars
  /\ [][imp.pc = "record" /\ imp'.pc = "idle" =>
          LET batch == import_batches'[Len(import_batches')]
          IN /\ batch.status = "failed" => batch.successful_items = 0
             /\ batch.status = "completed" => batch.successful_items = Len(imp.csv)]_vars

(* C23: the auction's status changes only draft -> published (with at      *)
(* least one lot), published -> active, or published / active -> closed;   *)
(* a publish of a non-draft auction or of one without lots is rejected     *)
(* and changes nothing.                                                    *)
C23_AuctionStatusTransitions ==
  [][/\ auction'.status # auction.status =>
          \/ /\ auction.status = "draft" /\ auction'.status = "published"
             /\ Len(lotRows) >= 1
          \/ auction.status = "published" /\ auction'.status = "active"
          \/ auction.status \in {"published", "active"} /\ auction'.status = "closed"
     /\ (resp'.op = "publish_auction" /\ (auction.status # "draft" \/ Len(lotRows) = 0)) =>
          ~resp'.success /\ auction' = auction /\ lotRows' = lotRows]_vars

(* C29: every active lot has a close time and its auction is not closed *)
C29_ActiveLotHasCloseTime ==
  \A i \in DOMAIN lotRows :
    lotRows[i].status = "active" =>
      lotRows[i].current_close_time # NULL /\ auction.status # "closed"

(* C22: of the files of a batch that parse to the same existing lot and    *)
(* photo order the first is matched and the later ones are conflicts with  *)
(* no lot assigned; a file with an unknown lot number or a name that does  *)
(* not parse is unmatched.                                                 *)
C22_FirstMatchWinsLaterConflict ==
  [][image_mappings' # image_mappings =>
       \A i \in DOMAIN image_mappings' :
         LET m == image_mappings'[i]
             parsed == parseImageFilename(m.filename)
             earlier == \E j \in 1..(i - 1) :
                          parseImageFilename(image_mappings'[j].filename) = parsed
         IN IF parsed.lotNumber = NULL \/ ~LotExists(lotRows, parsed.lotNumber)
            THEN m.match_status = "unmatched"
            ELSE IF earlier
            THEN m.match_status = "conflict" /\ m.assigned_lot_id = NULL
            ELSE m.match_status = "matched"]_vars

----------------------------------------------------------------------------
(* Writes that fail *)

(* C24: place_bid is atomic, its soft-close step included.  A call that    *)
(* returns a failure code other than OUTBID_BY_PROXY, a failed write among *)
(* them, leaves the lot and the Bid rows exactly as before, and every      *)
(* change of the close time comes with its soft_close_triggered event.     *)
C24_PlaceBidAtomicWithSoftClose ==
  [][req.pending =>
       /\ resp'.code \notin {"BID_SUCCESS", "OUTBID_BY_PROXY"} =>
            lot' = lot /\ bids' = bids
       /\ lot'.current_close_time # lot.current_close_time =>
            Events(audit', "soft_close_triggered") =
              Events(audit, "soft_close_triggered") + 1]_vars

(* the invoice items written for the lot *)
ItemsOfLot ==
  {p \in {<<r, i>> : r \in DOMAIN invoices.rows, i \in 1..MaxWrites} :
     /\ p[2] \in DOMAIN invoices.rows[p[1]].items
     /\ invoices.rows[p[1]].bidder_id = lot.current_bidder_id}

(* C30: generate_invoices is all or nothing.  After a call that failed no  *)
(* invoice and no item remains, so that a retry is not answered            *)
(* ALREADY_GENERATED; after a call that succeeded a sold lot with a winner *)
(* is on exactly one invoice item, on the invoice of its bidder.           *)
C30_GenerateAllOrNothing ==
  /\ [](resp = Resp("generate_invoices", "FAILED", FALSE, NULL) =>
          invoices.rows = <<>>)
  /\ []((resp = Resp("generate_invoices", "OK", TRUE, NULL)
           /\ lot.status = "sold" /\ lot.current_bidder_id # NULL) =>
          Cardinality(ItemsOfLot) = 1)

====
